---- MODULE Spec2Model ----
(***************************************************************************)
(* Order placement, cancellation, status and payment handlers of the       *)
(* attar shop backend (routes/orders.js, routes/payments.js,               *)
(* routes/products.js, routes/cart.js) over the Product and Order          *)
(* collections.  Every database call of a handler is one atomic step;      *)
(* requests interleave between their database calls.  Money is counted in  *)
(* cents.                                                                  *)
(***************************************************************************)
EXTENDS Integers, Sequences, FiniteSets, TLC

\* ------------------------------------------------------------ bounds
MaxOrders == 2      \* orders that can be created
MaxHist == 3        \* entries a status history can hold
MaxItems == 2       \* line items of one request
MaxQty == 3         \* largest quantity a line item asks for
MaxStock == 2       \* stock of every size at the start
MaxClock == 1       \* ticks of the wall clock
MaxIntents == 2     \* payment intents the gateway creates
MaxCheckouts == 1   \* orders created in a run of placements one at a time
MaxReviews == 2     \* reviews that can be created
MaxJobs == 2        \* runs of updateProductRating in flight at once
MaxVoters == 2      \* entries a review's votedBy can hold, and how far helpfulVotes is followed from 0

\* ------------------------------------------------------- identifiers
Users == {"u1", "u2"}
ReqSlots == <<"r1", "r2">>
Reqs == {ReqSlots[n] : n \in 1..Len(ReqSlots)}
Products == {"p1", "p2"}
AbsentProduct == "p9"
ProductIds == Products \cup {AbsentProduct}
SizeLabels == {"3ml", "6ml", "12ml"}

\* The sizes each product document carries (Product.sizes[].volume).
Volumes(p) == IF p \in Products THEN {"3ml", "6ml"} ELSE {}

Keys == {k \in Products \X SizeLabels : k[2] \in Volumes(k[1])}

\* The unit prices the catalogue gives the sizes, in cents
\* (Product.sizes[].price: any amount from 0).
CataloguePrice(k) == IF k = <<"p1", "3ml">> THEN 3000
                ELSE IF k = <<"p1", "6ml">> THEN 2000
                ELSE IF k = <<"p2", "3ml">> THEN 7500
                ELSE 1990

NoCoupon == "none"
NoOrder == 0
NoDate == -1
NoIntent == 0
NoMessage == ""
NoDoc == [status |-> "", payStatus |-> "", items |-> <<>>]
NoReview == 0
NoSeen == [rating |-> 0, helpfulVotes |-> 0, votedBy |-> <<>>]

\* Product.ratings of a product without reviews: the schema's defaults.
NoRatings == [average |-> 0, count |-> 0]

\* No response of the cart validation: the list asked about, the validated
\* items and the pricing of the response.
NoReply ==
  [asked |-> <<>>, items |-> <<>>,
   pricing |-> [subtotal |-> 0, shipping |-> 0, tax |-> 0, total |-> 0]]

\* ------------------------------------------------------------ pricing
FlatShipping == 999
FreeShippingMin == 10000
TaxPercent == 5
DemoCouponPercent == 10

\* Math.round(n / d) for d > 0: a half rounds towards plus infinity.
MathRound(n, d) == (2 * n + d) \div (2 * d)

RECURSIVE SumItems(_)
SumItems(its) ==
  IF its = <<>> THEN 0
  ELSE Head(its).price * Head(its).quantity + SumItems(Tail(its))

Subtotal(its) == SumItems(its)

\* Free shipping only above the threshold.
ShippingAbove(subtotal) == IF subtotal > FreeShippingMin THEN 0 ELSE FlatShipping

Shipping(subtotal) == IF subtotal >= FreeShippingMin THEN 0 ELSE FlatShipping

\* Math.round(subtotal * 0.05 * 100) / 100, in cents.
Tax(subtotal) == MathRound(subtotal * TaxPercent, 100)

\* coupon?.code is truthy for every non-empty string.
HasCode(coupon) == coupon # NoCoupon /\ coupon # ""

\* The coupon table of POST /api/cart/coupon: discount is a percentage of the
\* subtotal, an amount of money, or nothing for free shipping.
Coupons ==
  [c \in {"WELCOME10", "ATTAR20", "FREESHIP", "ROYAL50"} |->
     IF c = "WELCOME10" THEN [discount |-> 10, type |-> "percentage"]
     ELSE IF c = "ATTAR20" THEN [discount |-> 20, type |-> "percentage"]
     ELSE IF c = "FREESHIP" THEN [discount |-> 0, type |-> "freeShipping"]
     ELSE [discount |-> 50, type |-> "fixed"]]

Discount(subtotal, coupon) ==
  IF HasCode(coupon) THEN MathRound(subtotal * DemoCouponPercent, 100) ELSE 0

\* A total that forgets the discount.
TotalNoDiscount(subtotal, shipping, tax, discount) ==
  MathRound((subtotal + shipping + tax) * 100, 100)

\* Math.round((subtotal + shipping + tax - discount) * 100) / 100, in cents.
Total(subtotal, shipping, tax, discount) ==
  MathRound((subtotal + shipping + tax - discount) * 100, 100)

Pricing(its, coupon) ==
  LET subtotal == Subtotal(its)
      shipping == Shipping(subtotal)
      tax == Tax(subtotal)
      discount == Discount(subtotal, coupon)
  IN [subtotal |-> subtotal, shipping |-> shipping, tax |-> tax,
      discount |-> discount, total |-> Total(subtotal, shipping, tax, discount)]

\* ------------------------------------------------------------- state
VARIABLES
  stock,      \* Product.sizes[].stock of every size
  price,      \* Product.sizes[].price of every size, in cents
  active,     \* Product.isActive
  orders,     \* the Order collection, in creation order; an order's id is its index
  req,        \* the requests being handled: inputs, position and local variables
  clock,      \* the wall clock read by new Date() and Date.now
  intents,    \* the gateway's payment intents: the order id in each one's metadata
  name,       \* Product.name
  reviews,    \* the Review collection, in creation order; a review's id is its index
  ratings,    \* Product.ratings: the average, in tenths, and the count
  jobs,       \* the runs of updateProductRating that a hook started and nobody awaits
  solo        \* history variable: the requests handled one after the other, and
              \* nothing else, since the store was last at rest

vars == <<stock, price, active, orders, req, clock, intents, name, reviews, ratings, jobs, solo>>

\* The state of the reviews and of the ratings computed from them.
reviewVars == <<reviews, ratings, jobs>>

ZeroStock == [k \in Keys |-> 0]

ItemInputs ==
  [product : ProductIds, size : SizeLabels, quantity : 0..MaxQty]

\* The requested items of the placements one at a time: every quantity of
\* every size, and one item each for a size the product does not have and a
\* product that does not exist.
CheckoutItems ==
  {it \in ItemInputs :
     \/ <<it.product, it.size>> \in Keys
     \/ it.quantity = 1 /\ it.size = "12ml" /\ it.product = "p1"
     \/ it.quantity = 1 /\ it.size = "3ml" /\ it.product = AbsentProduct}

AllCarts == UNION {[1..n -> CheckoutItems] : n \in 1..MaxItems}

\* The requested items of the interleaved specification: every quantity of
\* one size, and one item of a second product.
RaceItems ==
  {it \in ItemInputs :
     \/ it.product = "p1" /\ it.size = "3ml" /\ it.quantity \in 1..MaxStock
     \/ it.product = "p2" /\ it.size = "3ml" /\ it.quantity = 1}

Carts == UNION {[1..n -> RaceItems] : n \in 1..MaxItems}

Methods == {"stripe", "cod"}

IdleReq ==
  [kind |-> "idle", pc |-> "idle", user |-> "u1", order |-> NoOrder,
   items |-> <<>>, coupon |-> NoCoupon, method |-> "stripe",
   status |-> "", message |-> NoMessage, event |-> "", intent |-> NoIntent,
   i |-> 0, orderItems |-> <<>>, loaded |-> NoDoc, stamp |-> NoDate, result |-> "",
   product |-> "", rating |-> 0, review |-> NoReview, seen |-> NoSeen,
   purchased |-> FALSE, reply |-> NoReply]

Free(r) == req[r].pc = "idle"

\* No request is being handled.
Quiet == \A q \in Reqs : Free(q)

\* A request takes the first free slot.
Slot(r) ==
  \E n \in 1..Len(ReqSlots) :
    r = ReqSlots[n] /\ Free(r) /\ \A m \in 1..(n - 1) : ~Free(ReqSlots[m])

\* Request record q once its handler has sent its response.
Finished(q, result) == [q EXCEPT !.pc = "done", !.result = result]

NoReq == "none"
NoSolo ==
  [actor |-> NoReq, stock |-> ZeroStock, orders |-> <<>>, reviews |-> <<>>, ops |-> <<>>]

\* What a finished request leaves in the history variable: its response, the
\* user who sent it, the order or the review it was about, the line item it
\* stopped at and, for a cart validation, the body of the response.
Op(q) ==
  [kind |-> q.kind, result |-> q.result, user |-> q.user, order |-> q.order, i |-> q.i,
   review |-> q.review, reply |-> q.reply]

\* A request arrives in slot r: at rest it opens a new record, which starts
\* from the stock and the orders of that moment, or, when extends holds,
\* it continues the record of the requests before it.  The record starts from
\* the stock, the orders and the reviews of that moment.
SoloStart(r, extends) ==
  IF ~Quiet THEN NoSolo
  ELSE IF extends /\ solo.ops # <<>> THEN [solo EXCEPT !.actor = r]
  ELSE [actor |-> r, stock |-> stock, orders |-> orders, reviews |-> reviews, ops |-> <<>>]

\* Request r takes a step that leaves its record as q.
SoloStep(r, q) ==
  IF solo.actor # r THEN NoSolo
  ELSE IF q.pc # "done" THEN solo
  ELSE [solo EXCEPT !.actor = NoReq, !.ops = Append(@, Op(q))]

\* Request r's step leaves its record as next: a finished request frees its slot.
Commit(r, next) ==
  /\ req' = [req EXCEPT ![r] = IF next.pc = "done" THEN IdleReq ELSE next]
  /\ solo' = SoloStep(r, next)

\* ------------------------------------------------------- place order
\* POST /api/orders: the request arrives (express-validator: items is a
\* non-empty array; the shipping address is taken to be complete).
StartPlace(r, u, cart, coupon, method) ==
  /\ Slot(r)
  /\ Len(orders) + Cardinality({q \in Reqs : req[q].kind = "place" /\ req[q].pc \in {"validate", "create"}}) < MaxOrders
  /\ req' = [req EXCEPT ![r] = [IdleReq EXCEPT !.kind = "place", !.pc = "validate",
                                  !.user = u, !.items = cart, !.coupon = coupon,
                                  !.method = method, !.i = 1]]
  /\ solo' = SoloStart(r, /\ Len(solo.ops) = 1
                          /\ solo.ops[1].kind = "validate"
                          /\ solo.ops[1].result = "ok"
                          /\ solo.ops[1].reply.asked = cart)
  /\ UNCHANGED <<stock, price, active, orders, clock, intents, name, reviewVars>>

\* The checks on one requested item with the stock check left out.
CheckItemNoStock(item) ==
  IF item.product \notin Products \/ ~active[item.product] THEN "NotFound"
  ELSE IF item.size \notin Volumes(item.product) THEN "InvalidSize"
  ELSE "ok"

\* The outcome of the checks on one requested item against the product read.
CheckItem(item) ==
  IF item.product \notin Products \/ ~active[item.product] THEN "NotFound"
  ELSE IF item.size \notin Volumes(item.product) THEN "InvalidSize"
  ELSE IF stock[<<item.product, item.size>>] < item.quantity THEN "InsufficientStock"
  ELSE "ok"

\* The line item pushed for a requested item: the product's name and the
\* size's price are snapshotted.
OrderItem(item) ==
  [product |-> item.product, name |-> name[item.product], size |-> item.size,
   price |-> price[<<item.product, item.size>>], quantity |-> item.quantity]

\* One pass of the validation loop: Product.findById and the three checks.
PlaceValidate(r) ==
  /\ req[r].kind = "place" /\ req[r].pc = "validate"
  /\ LET q == req[r]
         item == q.items[q.i]
         check == CheckItem(item)
         next == IF check # "ok" THEN Finished(q, check)
                 ELSE [q EXCEPT !.orderItems = Append(@, OrderItem(item)),
                                !.i = @ + 1,
                                !.pc = IF q.i = Len(q.items) THEN "create" ELSE "validate"]
     IN /\ Commit(r, next)
  /\ UNCHANGED <<stock, price, active, orders, clock, intents, name, reviewVars>>

\* An order schema without a minimum on items[].quantity.
ValidOrderItemsNoMin(its) == TRUE

\* Order schema validation of the document to create: items[].quantity min 1.
ValidOrderItems(its) == \A n \in 1..Len(its) : its[n].quantity >= 1

\* An order created as confirmed, with the history entry of a pending one.
NewOrderConfirmed(q) ==
  [user |-> q.user, items |-> q.orderItems,
   pricing |-> Pricing(q.orderItems, q.coupon),
   coupon |-> IF HasCode(q.coupon) THEN q.coupon ELSE NoCoupon,
   payment |-> [method |-> q.method, status |-> "pending",
                stripePaymentId |-> NoIntent, paidAt |-> NoDate],
   status |-> "confirmed",
   statusHistory |-> <<[status |-> "pending", message |-> "Order placed successfully",
                        timestamp |-> clock]>>]

NewOrder(q) ==
  [user |-> q.user, items |-> q.orderItems,
   pricing |-> Pricing(q.orderItems, q.coupon),
   coupon |-> IF HasCode(q.coupon) THEN q.coupon ELSE NoCoupon,
   payment |-> [method |-> q.method, status |-> "pending",
                stripePaymentId |-> NoIntent, paidAt |-> NoDate],
   status |-> "pending",
   statusHistory |-> <<[status |-> "pending", message |-> "Order placed successfully",
                        timestamp |-> clock]>>]

\* Totals are calculated and Order.create writes the order, or throws on a
\* schema validation error, which the catch block answers with 400.
PlaceCreate(r) ==
  /\ req[r].kind = "place" /\ req[r].pc = "create"
  /\ LET q == req[r]
         ok == ValidOrderItems(q.orderItems)
         next == IF ok THEN [q EXCEPT !.pc = "reduce", !.i = 1, !.order = Len(orders) + 1]
                 ELSE Finished(q, "ValidationFailed")
     IN /\ orders' = IF ok THEN Append(orders, NewOrder(q)) ELSE orders
        /\ Commit(r, next)
  /\ UNCHANGED <<stock, price, active, clock, intents, name, reviewVars>>

\* Product.updateOne({_id, 'sizes.volume'}, {$inc: {'sizes.$.stock': -quantity}})
StockAfterOrder(s, item) ==
  [s EXCEPT ![<<item.product, item.size>>] = @ - item.quantity]

\* One pass of the "Reduce stock" loop; after the last one the order is read
\* back and returned with 201.
PlaceReduce(r) ==
  /\ req[r].kind = "place" /\ req[r].pc = "reduce"
  /\ LET q == req[r]
         item == q.orderItems[q.i]
         moved == [q EXCEPT !.i = @ + 1]
         next == IF q.i = Len(q.orderItems) THEN Finished(moved, "ok") ELSE moved
     IN /\ stock' = StockAfterOrder(stock, item)
        /\ Commit(r, next)
  /\ UNCHANGED <<price, active, orders, clock, intents, name, reviewVars>>

\* A catch block that cancels the order it has created.
OrdersAfterFailureRolledBack(ords, o) == [ords EXCEPT ![o].status = "cancelled"]

\* The orders after the catch block has answered a failure of the reduce
\* loop: it sends 400 and undoes nothing.
OrdersAfterFailure(ords, o) == ords

\* Product.updateOne of the "Reduce stock" loop throws, the database being
\* out of reach: the update is not applied and the catch block answers 400.
PlaceReduceFails(r) ==
  /\ req[r].kind = "place" /\ req[r].pc = "reduce"
  /\ LET q == req[r]
     IN /\ orders' = OrdersAfterFailure(orders, q.order)
        /\ Commit(r, Finished(q, "Failed"))
  /\ UNCHANGED <<stock, price, active, clock, intents, name, reviewVars>>

\* ---------------------------------------------------- cart validation
\* POST /api/cart/validate with a list of at least one item.
StartCartValidate(r, u, cart) ==
  /\ Slot(r)
  /\ cart # <<>>
  /\ req' = [req EXCEPT ![r] = [IdleReq EXCEPT !.kind = "validate", !.pc = "check",
                                  !.user = u, !.items = cart, !.i = 1]]
  /\ solo' = SoloStart(r, FALSE)
  /\ UNCHANGED <<stock, price, active, orders, clock, intents, name, reviewVars>>

\* The checks of the cart on one item against the product read: the stock is
\* not one of them.
CartCheckItem(item) ==
  IF item.product \notin Products \/ ~active[item.product] THEN "NotFound"
  ELSE IF item.size \notin Volumes(item.product) THEN "InvalidSize"
  ELSE "ok"

Min(a, b) == IF a <= b THEN a ELSE b

\* The entry pushed onto validatedItems: the quantity is capped by the
\* stock, the subtotal is the price times the quantity asked for.
ValidatedItem(item) ==
  LET k == <<item.product, item.size>>
  IN [productId |-> item.product, name |-> name[item.product], size |-> item.size,
      price |-> price[k], stock |-> stock[k],
      quantity |-> Min(item.quantity, stock[k]),
      subtotal |-> price[k] * item.quantity]

RECURSIVE CartSubtotal(_)
CartSubtotal(validated) ==
  IF validated = <<>> THEN 0
  ELSE Head(validated).subtotal + CartSubtotal(Tail(validated))

\* A cart that charges no tax.
CartPricingNoTax(validated) ==
  LET subtotal == CartSubtotal(validated)
      shipping == IF subtotal >= 10000 THEN 0 ELSE 999
  IN [subtotal |-> subtotal, shipping |-> shipping, tax |-> 0,
      total |-> subtotal + shipping]

\* The pricing of the response, in cents: shipping is subtotal >= 100 ? 0 :
\* 9.99, tax is Math.round(subtotal * 0.05 * 100) / 100 and the total is
\* their sum with the subtotal.
CartPricing(validated) ==
  LET subtotal == CartSubtotal(validated)
      shipping == IF subtotal >= 10000 THEN 0 ELSE 999
      tax == MathRound(subtotal * 5, 100)
  IN [subtotal |-> subtotal, shipping |-> shipping, tax |-> tax,
      total |-> subtotal + shipping + tax]

\* One pass of the loop: Product.findById, the two checks and the push; after
\* the last item the response is sent.
CartValidate(r) ==
  /\ req[r].kind = "validate" /\ req[r].pc = "check"
  /\ LET q == req[r]
         item == q.items[q.i]
         check == CartCheckItem(item)
         validated == Append(q.reply.items, ValidatedItem(item))
         moved == [q EXCEPT !.i = @ + 1, !.reply.items = validated]
         next == IF check # "ok" THEN Finished([q EXCEPT !.reply = NoReply], check)
                 ELSE IF q.i < Len(q.items) THEN moved
                 ELSE Finished([moved EXCEPT !.reply.asked = q.items,
                                             !.reply.pricing = CartPricing(validated)], "ok")
     IN Commit(r, next)
  /\ UNCHANGED <<stock, price, active, orders, clock, intents, name, reviewVars>>

\* ------------------------------------------------------ order documents
Exists(o) == o \in 1..Len(orders)

\* The fields of an order document that a handler reads from its loaded copy.
Load(o) ==
  [status |-> orders[o].status, payStatus |-> orders[o].payment.status,
   items |-> orders[o].items]

\* Requests that have pushed a history entry onto their loaded copy of order
\* o and have not saved it yet.
Pushers(o) ==
  {q \in Reqs : /\ req[q].pc = "save" /\ req[q].order = o
                /\ req[q].kind \in {"cancel", "status", "cod"}
                   \/ (req[q].kind = "webhook" /\ req[q].event = "payment_intent.succeeded")}

RoomInHistory(o) == Len(orders[o].statusHistory) + Cardinality(Pushers(o)) < MaxHist

\* statusHistory.push({status, message}): the timestamp defaults to Date.now.
Entry(status, message, at) == [status |-> status, message |-> message, timestamp |-> at]

\* A save that also takes the line items' prices from the catalogue again.
SaveStatusRepriced(doc, loaded, status, entry) ==
  [doc EXCEPT !.status = IF status # loaded.status THEN status ELSE @,
              !.statusHistory = Append(@, entry),
              !.items = [n \in 1..Len(doc.items) |->
                           [doc.items[n] EXCEPT
                              !.price = price[<<doc.items[n].product, doc.items[n].size>>]]]]

\* A save that writes the status and loses the pushed entry.
SaveStatusNoPush(doc, loaded, status, entry) ==
  [doc EXCEPT !.status = IF status # loaded.status THEN status ELSE @]

\* order.save() after statusHistory.push(entry) and order.status = status:
\* the update $pushes the entry and $sets status when the assignment changed
\* the loaded value.
SaveStatus(doc, loaded, status, entry) ==
  [doc EXCEPT !.status = IF status # loaded.status THEN status ELSE @,
              !.statusHistory = Append(@, entry)]

\* ------------------------------------------------------ cancel order
\* PUT /api/orders/:id/cancel
StartCancel(r, u, o, reason) ==
  /\ Slot(r)
  /\ req' = [req EXCEPT ![r] = [IdleReq EXCEPT !.kind = "cancel", !.pc = "find",
                                  !.user = u, !.order = o, !.message = reason]]
  /\ solo' = SoloStart(r, /\ Len(solo.ops) = 1
                          /\ solo.ops[1].kind = "place"
                          /\ solo.ops[1].result = "ok"
                          /\ solo.ops[1].order = o)
  /\ UNCHANGED <<stock, price, active, orders, clock, intents, name, reviewVars>>

\* A cancellable list that lets a customer cancel an order being processed.
CancellableStatusesWide == {"pending", "confirmed", "processing"}

CancellableStatuses == {"pending", "confirmed"}

\* Users whose role is admin (req.user.role === 'admin').
Admins == {"u2"}

\* The checks of a cancellation that lets an administrator cancel any order.
CancelCheckAdmin(q) ==
  IF ~Exists(q.order) THEN "NotFound"
  ELSE IF orders[q.order].user # q.user /\ q.user \notin Admins THEN "Forbidden"
  ELSE IF orders[q.order].status \notin {"pending", "confirmed"} THEN "Conflict"
  ELSE "ok"

\* Order.findById and the checks on the order read.
CancelCheck(q) ==
  IF ~Exists(q.order) THEN "NotFound"
  ELSE IF orders[q.order].user # q.user THEN "Forbidden"
  ELSE IF orders[q.order].status \notin CancellableStatuses THEN "Conflict"
  ELSE "ok"

CancelFind(r) ==
  /\ req[r].kind = "cancel" /\ req[r].pc = "find"
  /\ LET q == req[r]
         check == CancelCheck(q)
         next == IF check # "ok" THEN Finished(q, check)
                 ELSE [q EXCEPT !.pc = "save", !.loaded = Load(q.order), !.stamp = clock]
     IN /\ check = "ok" => RoomInHistory(q.order)
        /\ Commit(r, next)
  /\ UNCHANGED <<stock, price, active, orders, clock, intents, name, reviewVars>>

CancelMessage(reason) == IF reason # NoMessage THEN reason ELSE "Cancelled by customer"

\* order.save() of the cancelled order.
CancelSave(r) ==
  /\ req[r].kind = "cancel" /\ req[r].pc = "save"
  /\ LET q == req[r]
         next == [q EXCEPT !.pc = "restore", !.i = 1]
     IN /\ orders' = [orders EXCEPT ![q.order] =
                        SaveStatus(@, q.loaded, "cancelled",
                                   Entry("cancelled", CancelMessage(q.message), q.stamp))]
        /\ Commit(r, next)
  /\ UNCHANGED <<stock, price, active, clock, intents, name, reviewVars>>

\* A restore loop that puts back one unit for each line item.
StockAfterCancelOne(s, item) ==
  [s EXCEPT ![<<item.product, item.size>>] = @ + 1]

\* Product.updateOne({_id, 'sizes.volume'}, {$inc: {'sizes.$.stock': quantity}})
StockAfterCancel(s, item) ==
  [s EXCEPT ![<<item.product, item.size>>] = @ + item.quantity]

\* One pass of the "Restore stock" loop over the loaded order's items.
CancelRestore(r) ==
  /\ req[r].kind = "cancel" /\ req[r].pc = "restore"
  /\ LET q == req[r]
         item == q.loaded.items[q.i]
         moved == [q EXCEPT !.i = @ + 1]
         next == IF q.i = Len(q.loaded.items) THEN Finished(moved, "ok") ELSE moved
     IN /\ stock' = StockAfterCancel(stock, item)
        /\ Commit(r, next)
  /\ UNCHANGED <<price, active, orders, clock, intents, name, reviewVars>>

\* ------------------------------------------------ admin status update
ValidStatuses ==
  {"pending", "confirmed", "processing", "shipped", "delivered", "cancelled", "refunded"}

\* PUT /api/orders/:id/status by an administrator; an invalid status is
\* answered with 400 before the order is read.
StartStatus(r, o, status, message) ==
  /\ Slot(r)
  /\ LET q == [IdleReq EXCEPT !.kind = "status", !.pc = "find", !.order = o,
                              !.status = status, !.message = message]
     IN IF status \in ValidStatuses
        THEN req' = [req EXCEPT ![r] = q] /\ solo' = SoloStart(r, FALSE)
        ELSE req' = req /\ solo' = [SoloStart(r, FALSE) EXCEPT !.actor = NoReq,
                                      !.ops = Append(@, Op(Finished(q, "ValidationFailed")))]
  /\ UNCHANGED <<stock, price, active, orders, clock, intents, name, reviewVars>>

StatusFind(r) ==
  /\ req[r].kind = "status" /\ req[r].pc = "find"
  /\ LET q == req[r]
         next == IF ~Exists(q.order) THEN Finished(q, "NotFound")
                 ELSE [q EXCEPT !.pc = "save", !.loaded = Load(q.order), !.stamp = clock]
     IN /\ Exists(q.order) => RoomInHistory(q.order)
        /\ Commit(r, next)
  /\ UNCHANGED <<stock, price, active, orders, clock, intents, name, reviewVars>>

StatusMessage(status, message) ==
  IF message # NoMessage THEN message ELSE "Status updated to " \o status

\* if (status === 'delivered') order.payment.paidAt = new Date()
PaidAtAfterStatus(paidAt, status, at) == IF status = "delivered" THEN at ELSE paidAt

StatusSave(r) ==
  /\ req[r].kind = "status" /\ req[r].pc = "save"
  /\ LET q == req[r]
         saved == SaveStatus(orders[q.order], q.loaded, q.status,
                             Entry(q.status, StatusMessage(q.status, q.message), q.stamp))
         next == Finished(q, "ok")
     IN /\ orders' = [orders EXCEPT ![q.order] =
                        [saved EXCEPT !.payment.paidAt = PaidAtAfterStatus(@, q.status, q.stamp)]]
        /\ Commit(r, next)
  /\ UNCHANGED <<stock, price, active, clock, intents, name, reviewVars>>

\* ---------------------------------------------------- payment intents
\* POST /api/payments/create-intent (the gateway is configured)
StartIntent(r, u, o) ==
  /\ Slot(r)
  /\ Len(intents) + Cardinality({q \in Reqs : req[q].kind = "intent" /\ req[q].pc \in {"find", "gateway"}}) < MaxIntents
  /\ req' = [req EXCEPT ![r] = [IdleReq EXCEPT !.kind = "intent", !.pc = "find",
                                  !.user = u, !.order = o]]
  /\ solo' = SoloStart(r, FALSE)
  /\ UNCHANGED <<stock, price, active, orders, clock, intents, name, reviewVars>>

IntentCheck(q) ==
  IF ~Exists(q.order) THEN "NotFound"
  ELSE IF orders[q.order].user # q.user THEN "Forbidden"
  ELSE "ok"

IntentFind(r) ==
  /\ req[r].kind = "intent" /\ req[r].pc = "find"
  /\ LET q == req[r]
         check == IntentCheck(q)
         next == IF check # "ok" THEN Finished(q, check)
                 ELSE [q EXCEPT !.pc = "gateway", !.loaded = Load(q.order)]
     IN /\ Commit(r, next)
  /\ UNCHANGED <<stock, price, active, orders, clock, intents, name, reviewVars>>

\* stripe.paymentIntents.create: the gateway makes a new intent whose
\* metadata names the order.
IntentCreate(r) ==
  /\ req[r].kind = "intent" /\ req[r].pc = "gateway"
  /\ LET q == req[r]
         next == [q EXCEPT !.pc = "save", !.intent = Len(intents) + 1]
     IN /\ intents' = Append(intents, q.order)
        /\ Commit(r, next)
  /\ UNCHANGED <<stock, price, active, orders, clock, name, reviewVars>>

\* order.save() with payment.stripePaymentId = paymentIntent.id
IntentSave(r) ==
  /\ req[r].kind = "intent" /\ req[r].pc = "save"
  /\ LET q == req[r]
         next == Finished(q, "ok")
     IN /\ orders' = [orders EXCEPT ![q.order].payment.stripePaymentId = q.intent]
        /\ Commit(r, next)
  /\ UNCHANGED <<stock, price, active, clock, intents, name, reviewVars>>

\* ------------------------------------------------------------ webhook
WebhookEvents == {"payment_intent.succeeded", "payment_intent.payment_failed"}

\* POST /api/payments/webhook with a verified event about an intent the
\* gateway has created.
StartWebhook(r, event, pi) ==
  /\ Slot(r)
  /\ pi \in 1..Len(intents)
  /\ req' = [req EXCEPT ![r] = [IdleReq EXCEPT !.kind = "webhook", !.pc = "find",
                                  !.event = event, !.intent = pi]]
  /\ solo' = SoloStart(r, FALSE)
  /\ UNCHANGED <<stock, price, active, orders, clock, intents, name, reviewVars>>

\* Order.findOne({'payment.stripePaymentId': paymentIntent.id})
OrdersOfIntent(pi) == {o \in 1..Len(orders) : orders[o].payment.stripePaymentId = pi}

WebhookFind(r) ==
  /\ req[r].kind = "webhook" /\ req[r].pc = "find"
  /\ LET q == req[r]
     IN \/ /\ OrdersOfIntent(q.intent) = {}
           /\ Commit(r, Finished(q, "received"))
        \/ \E o \in OrdersOfIntent(q.intent) :
             LET next == [q EXCEPT !.pc = "save", !.order = o, !.loaded = Load(o),
                                   !.stamp = clock]
             IN /\ q.event = "payment_intent.succeeded" => RoomInHistory(o)
                /\ Commit(r, next)
  /\ UNCHANGED <<stock, price, active, orders, clock, intents, name, reviewVars>>

\* order.save() after the assignments of the event's case; an assignment
\* that leaves the loaded value as it was is not part of the update.
WebhookSaved(doc, q) ==
  IF q.event = "payment_intent.succeeded"
  THEN [SaveStatus(doc, q.loaded, "confirmed",
                   Entry("confirmed", "Payment received successfully", q.stamp))
          EXCEPT !.payment.status = IF q.loaded.payStatus # "paid" THEN "paid" ELSE @,
                 !.payment.paidAt = q.stamp]
  ELSE [doc EXCEPT !.payment.status = IF q.loaded.payStatus # "failed" THEN "failed" ELSE @]

WebhookSave(r) ==
  /\ req[r].kind = "webhook" /\ req[r].pc = "save"
  /\ LET q == req[r]
         next == Finished(q, "received")
     IN /\ orders' = [orders EXCEPT ![q.order] = WebhookSaved(@, q)]
        /\ Commit(r, next)
  /\ UNCHANGED <<stock, price, active, clock, intents, name, reviewVars>>

\* ----------------------------------------------------- confirm COD
\* POST /api/payments/confirm-cod/:orderId by any logged-in user
StartCod(r, u, o) ==
  /\ Slot(r)
  /\ req' = [req EXCEPT ![r] = [IdleReq EXCEPT !.kind = "cod", !.pc = "find",
                                  !.user = u, !.order = o]]
  /\ solo' = SoloStart(r, FALSE)
  /\ UNCHANGED <<stock, price, active, orders, clock, intents, name, reviewVars>>

CodCheck(q) ==
  IF ~Exists(q.order) THEN "NotFound"
  ELSE IF orders[q.order].payment.method # "cod" THEN "NotCod"
  ELSE "ok"

CodFind(r) ==
  /\ req[r].kind = "cod" /\ req[r].pc = "find"
  /\ LET q == req[r]
         check == CodCheck(q)
         next == IF check # "ok" THEN Finished(q, check)
                 ELSE [q EXCEPT !.pc = "save", !.loaded = Load(q.order), !.stamp = clock]
     IN /\ check = "ok" => RoomInHistory(q.order)
        /\ Commit(r, next)
  /\ UNCHANGED <<stock, price, active, orders, clock, intents, name, reviewVars>>

CodSave(r) ==
  /\ req[r].kind = "cod" /\ req[r].pc = "save"
  /\ LET q == req[r]
         next == Finished(q, "ok")
     IN /\ orders' = [orders EXCEPT ![q.order] =
                        SaveStatus(@, q.loaded, "confirmed",
                                   Entry("confirmed", "Cash on delivery order confirmed", q.stamp))]
        /\ Commit(r, next)
  /\ UNCHANGED <<stock, price, active, clock, intents, name, reviewVars>>

\* ------------------------------------------------------------ reviews
Live(id) == id \in 1..Len(reviews) /\ reviews[id].live

\* The reviews that Review.findOne({user, product}) can return, which are
\* also the entries of the unique index on {user, product}.
ReviewsOf(u, p) == {id \in 1..Len(reviews) : Live(id) /\ reviews[id].user = u /\ reviews[id].product = p}

\* The elements of an array.
Elements(arr) == {arr[n] : n \in 1..Len(arr)}

\* array.pull(x): the array without every element equal to x.
RECURSIVE Pull(_, _)
Pull(arr, x) ==
  IF arr = <<>> THEN <<>>
  ELSE IF Head(arr) = x THEN Pull(Tail(arr), x)
  ELSE <<Head(arr)>> \o Pull(Tail(arr), x)

\* ---------------------------------------------------- product rating
\* The $match and $group stages of updateProductRating: the sum (for $avg)
\* and the number of the ratings of the approved reviews of product p.
RECURSIVE SumRatings(_, _)
SumRatings(revs, p) ==
  IF revs = <<>> THEN 0
  ELSE (IF Head(revs).live /\ Head(revs).isApproved /\ Head(revs).product = p
        THEN Head(revs).rating ELSE 0) + SumRatings(Tail(revs), p)

CountRatings(revs, p) ==
  Cardinality({id \in 1..Len(revs) : revs[id].live /\ revs[id].isApproved /\ revs[id].product = p})

\* A hook calls updateProductRating(p) and does not await it: the run's
\* aggregate is on its way to the store.
NewJob(p) == [product |-> p, pc |-> "aggregate", sum |-> 0, count |-> 0]

\* Math.round(stats[0].avgRating * 10) / 10, in tenths, and the count; 0 and
\* 0 when no review matched.
RatingOf(sum, count) ==
  IF count > 0 THEN [average |-> MathRound(sum * 10, count), count |-> count]
  ELSE [average |-> 0, count |-> 0]

\* An update that adds the reviews counted to the count already stored.
RatingsAfterUpdateAdding(rt, job) ==
  [rt EXCEPT ![job.product] = [average |-> RatingOf(job.sum, job.count).average,
                               count |-> @.count + job.count]]

\* Product.findByIdAndUpdate(productId, {'ratings.average', 'ratings.count'})
RatingsAfterUpdate(rt, job) ==
  [rt EXCEPT ![job.product] = RatingOf(job.sum, job.count)]

Without(seq, j) == [n \in 1..(Len(seq) - 1) |-> IF n < j THEN seq[n] ELSE seq[n + 1]]

\* this.aggregate([...]) of run j is answered by the store.
RatingAggregate(j) ==
  /\ j \in 1..Len(jobs) /\ jobs[j].pc = "aggregate"
  /\ LET p == jobs[j].product
     IN jobs' = [jobs EXCEPT ![j] = [product |-> p, pc |-> "write",
                                     sum |-> SumRatings(reviews, p),
                                     count |-> CountRatings(reviews, p)]]
  /\ UNCHANGED <<stock, price, active, orders, req, clock, intents, name, reviews, ratings, solo>>

\* Run j writes the product's ratings and ends.
RatingWrite(j) ==
  /\ j \in 1..Len(jobs) /\ jobs[j].pc = "write"
  /\ ratings' = RatingsAfterUpdate(ratings, jobs[j])
  /\ jobs' = Without(jobs, j)
  /\ UNCHANGED <<stock, price, active, orders, req, clock, intents, name, reviews, solo>>

RatingStep(j) == RatingAggregate(j) \/ RatingWrite(j)

\* The state of the shop that the review handlers leave alone.
shopVars == <<stock, price, active, orders, clock, intents, name>>

\* ------------------------------------------------------ create review
RatingRange == 1..5

\* POST /api/reviews: express-validator answers a rating outside 1..5 with
\* 400 before anything is read.
StartReview(r, u, p, rating) ==
  /\ Slot(r)
  /\ Len(reviews) + Cardinality({q \in Reqs : req[q].kind = "review"}) < MaxReviews
  /\ LET q == [IdleReq EXCEPT !.kind = "review", !.pc = "existing", !.user = u,
                              !.product = p, !.rating = rating]
     IN IF rating \in RatingRange
        THEN req' = [req EXCEPT ![r] = q] /\ solo' = SoloStart(r, FALSE)
        ELSE req' = req /\ solo' = [SoloStart(r, FALSE) EXCEPT !.actor = NoReq,
                                      !.ops = Append(@, Op(Finished(q, "ValidationFailed")))]
  /\ UNCHANGED <<shopVars, reviewVars>>

\* Review.findOne({user, product}): "already reviewed" when there is one.
ReviewExisting(r) ==
  /\ req[r].kind = "review" /\ req[r].pc = "existing"
  /\ LET q == req[r]
         next == IF ReviewsOf(q.user, q.product) # {} THEN Finished(q, "Duplicate")
                 ELSE [q EXCEPT !.pc = "purchased"]
     IN Commit(r, next)
  /\ UNCHANGED <<shopVars, reviewVars>>

\* Order.findOne({user, 'items.product': product, status: 'delivered'})
\* A lookup that takes an order in any status.
HasPurchasedAnyStatus(u, p) ==
  \E o \in 1..Len(orders) :
    /\ orders[o].user = u
    /\ \E n \in 1..Len(orders[o].items) : orders[o].items[n].product = p

HasPurchased(u, p) ==
  \E o \in 1..Len(orders) :
    /\ orders[o].user = u
    /\ orders[o].status = "delivered"
    /\ \E n \in 1..Len(orders[o].items) : orders[o].items[n].product = p

ReviewPurchased(r) ==
  /\ req[r].kind = "review" /\ req[r].pc = "purchased"
  /\ LET q == req[r]
         next == [q EXCEPT !.pc = "create", !.purchased = HasPurchased(q.user, q.product)]
     IN Commit(r, next)
  /\ UNCHANGED <<shopVars, reviewVars>>

\* A collection without the unique index.
DuplicateKeyNever(u, p) == FALSE

\* The insert violates the unique index on {user, product} (E11000).
DuplicateKey(u, p) == ReviewsOf(u, p) # {}

NewReview(q) ==
  [user |-> q.user, product |-> q.product, rating |-> q.rating,
   isVerifiedPurchase |-> q.purchased, isApproved |-> TRUE,
   helpfulVotes |-> 0, votedBy |-> <<>>, live |-> TRUE]

\* Review.create: the insert, and on success the post('save') hook.
ReviewCreate(r) ==
  /\ req[r].kind = "review" /\ req[r].pc = "create"
  /\ LET q == req[r]
         dup == DuplicateKey(q.user, q.product)
         next == IF dup THEN Finished(q, "Duplicate")
                 ELSE Finished([q EXCEPT !.review = Len(reviews) + 1], "ok")
     IN /\ ~dup => Len(jobs) < MaxJobs
        /\ reviews' = IF dup THEN reviews ELSE Append(reviews, NewReview(q))
        /\ jobs' = IF dup THEN jobs ELSE Append(jobs, NewJob(q.product))
        /\ Commit(r, next)
  /\ UNCHANGED <<shopVars, ratings>>

ReviewStep(r) == ReviewExisting(r) \/ ReviewPurchased(r) \/ ReviewCreate(r)

\* The fields of a review that a handler reads from its loaded copy.
See(id) ==
  [rating |-> reviews[id].rating, helpfulVotes |-> reviews[id].helpfulVotes,
   votedBy |-> reviews[id].votedBy]

\* ------------------------------------------------------ update review
\* PUT /api/reviews/:id; rating 0 stands for a body without a rating.
StartEdit(r, u, id, rating) ==
  /\ Slot(r)
  /\ req' = [req EXCEPT ![r] = [IdleReq EXCEPT !.kind = "edit", !.pc = "find", !.user = u,
                                  !.review = id, !.rating = rating]]
  /\ solo' = SoloStart(r, FALSE)
  /\ UNCHANGED <<shopVars, reviewVars>>

EditCheck(q) ==
  IF ~Live(q.review) THEN "NotFound"
  ELSE IF reviews[q.review].user # q.user THEN "Forbidden"
  ELSE "ok"

\* Review.findById and the checks; review.rating = rating || review.rating.
EditFind(r) ==
  /\ req[r].kind = "edit" /\ req[r].pc = "find"
  /\ LET q == req[r]
         check == EditCheck(q)
         next == IF check # "ok" THEN Finished(q, check)
                 ELSE [q EXCEPT !.pc = "save", !.seen = See(q.review),
                                !.rating = IF q.rating # 0 THEN q.rating
                                           ELSE reviews[q.review].rating]
     IN Commit(r, next)
  /\ UNCHANGED <<shopVars, reviewVars>>

\* review.save(): the schema validates the rating; the update $sets the
\* rating when the assignment changed the loaded value, and fails when the
\* review is gone; on success the post('save') hook runs.
EditSave(r) ==
  /\ req[r].kind = "edit" /\ req[r].pc = "save"
  /\ LET q == req[r]
         result == IF q.rating \notin RatingRange THEN "ValidationFailed"
                   ELSE IF ~Live(q.review) THEN "Failed"
                   ELSE "ok"
     IN /\ result = "ok" => Len(jobs) < MaxJobs
        /\ reviews' = IF result = "ok" /\ q.rating # q.seen.rating
                       THEN [reviews EXCEPT ![q.review].rating = q.rating]
                       ELSE reviews
        /\ jobs' = IF result = "ok" THEN Append(jobs, NewJob(reviews[q.review].product))
                    ELSE jobs
        /\ Commit(r, Finished(q, result))
  /\ UNCHANGED <<shopVars, ratings>>

EditStep(r) == EditFind(r) \/ EditSave(r)

\* ------------------------------------------------------ delete review
\* DELETE /api/reviews/:id
StartRemove(r, u, id) ==
  /\ Slot(r)
  /\ req' = [req EXCEPT ![r] = [IdleReq EXCEPT !.kind = "remove", !.pc = "find", !.user = u,
                                  !.review = id]]
  /\ solo' = SoloStart(r, FALSE)
  /\ UNCHANGED <<shopVars, reviewVars>>

RemoveCheck(q) ==
  IF ~Live(q.review) THEN "NotFound"
  ELSE IF reviews[q.review].user # q.user /\ q.user \notin Admins THEN "Forbidden"
  ELSE "ok"

RemoveFind(r) ==
  /\ req[r].kind = "remove" /\ req[r].pc = "find"
  /\ LET q == req[r]
         check == RemoveCheck(q)
         next == IF check # "ok" THEN Finished(q, check) ELSE [q EXCEPT !.pc = "delete"]
     IN Commit(r, next)
  /\ UNCHANGED <<shopVars, reviewVars>>

\* review.deleteOne() and its post('deleteOne') hook.
RemoveDelete(r) ==
  /\ req[r].kind = "remove" /\ req[r].pc = "delete"
  /\ Len(jobs) < MaxJobs
  /\ reviews' = [reviews EXCEPT ![req[r].review].live = FALSE]
  /\ jobs' = Append(jobs, NewJob(reviews[req[r].review].product))
  /\ Commit(r, Finished(req[r], "ok"))
  /\ UNCHANGED <<shopVars, ratings>>

RemoveStep(r) == RemoveFind(r) \/ RemoveDelete(r)

\* ------------------------------------------------------- helpful vote
\* POST /api/reviews/:id/helpful
StartVote(r, u, id) ==
  /\ Slot(r)
  /\ req' = [req EXCEPT ![r] = [IdleReq EXCEPT !.kind = "vote", !.pc = "find", !.user = u,
                                  !.review = id]]
  /\ solo' = SoloStart(r, /\ Len(solo.ops) = 1
                          /\ solo.ops[1].kind = "vote"
                          /\ solo.ops[1].result \in {"voted", "unvoted"}
                          /\ solo.ops[1].user = u
                          /\ solo.ops[1].review = id)
  /\ UNCHANGED <<shopVars, reviewVars>>

\* Review.findById
VoteFind(r) ==
  /\ req[r].kind = "vote" /\ req[r].pc = "find"
  /\ LET q == req[r]
         next == IF ~Live(q.review) THEN Finished(q, "NotFound")
                 ELSE [q EXCEPT !.pc = "save", !.seen = See(q.review)]
     IN Commit(r, next)
  /\ UNCHANGED <<shopVars, reviewVars>>

\* A check that never finds the user among the voters.
AlreadyVotedNever(q) == FALSE

\* review.votedBy.includes(req.user._id) on the loaded copy.
AlreadyVoted(q) == q.user \in Elements(q.seen.votedBy)

\* The update review.save() sends: helpfulVotes is $set to the loaded value
\* minus or plus one, and the user is $pulled from or $pushed onto votedBy.
VoteSaved(doc, q) ==
  IF AlreadyVoted(q)
  THEN [doc EXCEPT !.helpfulVotes = q.seen.helpfulVotes - 1, !.votedBy = Pull(@, q.user)]
  ELSE [doc EXCEPT !.helpfulVotes = q.seen.helpfulVotes + 1, !.votedBy = Append(@, q.user)]

\* review.save(), which fails when the review is gone, and on success the
\* post('save') hook; the answer carries voted = !alreadyVoted.  The model
\* follows helpfulVotes within -MaxVoters..MaxVoters.
VoteSave(r) ==
  /\ req[r].kind = "vote" /\ req[r].pc = "save"
  /\ LET q == req[r]
         ok == Live(q.review)
         result == IF ~ok THEN "Failed" ELSE IF AlreadyVoted(q) THEN "unvoted" ELSE "voted"
     IN /\ ok => Len(jobs) < MaxJobs
        /\ ok /\ ~AlreadyVoted(q) => Len(reviews[q.review].votedBy) < MaxVoters
        /\ ok => VoteSaved(reviews[q.review], q).helpfulVotes \in -MaxVoters..MaxVoters
        /\ reviews' = IF ok THEN [reviews EXCEPT ![q.review] = VoteSaved(@, q)] ELSE reviews
        /\ jobs' = IF ok THEN Append(jobs, NewJob(reviews[q.review].product)) ELSE jobs
        /\ Commit(r, Finished(q, result))
  /\ UNCHANGED <<shopVars, ratings>>

VoteStep(r) == VoteFind(r) \/ VoteSave(r)

\* ------------------------------------------------- catalogue and time
\* A deletion that also empties the product's stock.
DeleteProductAndStock(p) ==
  /\ active' = [active EXCEPT ![p] = FALSE]
  /\ stock' = [k \in Keys |-> IF k[1] = p THEN 0 ELSE stock[k]]
  /\ solo' = NoSolo
  /\ UNCHANGED <<price, orders, req, clock, intents, name, reviewVars>>

\* DELETE /api/products/:id: findByIdAndUpdate(id, {isActive: false})
DeleteProduct(p) ==
  /\ active' = [active EXCEPT ![p] = FALSE]
  /\ solo' = NoSolo
  /\ UNCHANGED <<stock, price, orders, req, clock, intents, name, reviewVars>>

\* PUT /api/products/:id by an administrator: findByIdAndUpdate(id, req.body)
\* with a body that gives the product a name and one of its sizes a price.
UpdateProduct(p, newName, size, newPrice) ==
  /\ <<p, size>> \in Keys
  /\ name' = [name EXCEPT ![p] = newName]
  /\ price' = [price EXCEPT ![<<p, size>>] = newPrice]
  /\ solo' = NoSolo
  /\ UNCHANGED <<stock, active, orders, req, clock, intents, reviewVars>>

\* Time passes.
Tick ==
  /\ clock < MaxClock
  /\ clock' = clock + 1
  /\ UNCHANGED <<stock, price, active, orders, req, intents, solo, name, reviewVars>>

\* ------------------------------------------------------------- specs
Init ==
  /\ stock = [k \in Keys |-> MaxStock]
  /\ price = [k \in Keys |-> CataloguePrice(k)]
  /\ active = [p \in Products |-> TRUE]
  /\ orders = <<>>
  /\ req = [r \in Reqs |-> IdleReq]
  /\ clock = 0
  /\ intents = <<>>
  /\ name = [p \in Products |-> "attar"]
  /\ reviews = <<>>
  /\ ratings = [p \in Products |-> NoRatings]
  /\ jobs = <<>>
  /\ solo = NoSolo

OrderIds == 1..MaxOrders
Messages == {NoMessage, "note"}
StatusInputs == ValidStatuses \cup {"returned"}
CouponInputs == {NoCoupon, "WELCOME10", "ATTAR20", "FREESHIP", "ROYAL50", "BOGUS"}

PlaceStep(r) == PlaceValidate(r) \/ PlaceCreate(r) \/ PlaceReduce(r)
CancelStep(r) == CancelFind(r) \/ CancelSave(r) \/ CancelRestore(r)
StatusStep(r) == StatusFind(r) \/ StatusSave(r)
IntentStep(r) == IntentFind(r) \/ IntentCreate(r) \/ IntentSave(r)
WebhookStep(r) == WebhookFind(r) \/ WebhookSave(r)
CodStep(r) == CodFind(r) \/ CodSave(r)

\* Placements and cancellations of stripe orders, interleaved.
Next ==
  \/ \E r \in Reqs, u \in Users, cart \in Carts : StartPlace(r, u, cart, NoCoupon, "stripe")
  \/ \E r \in Reqs, u \in Users, o \in OrderIds : StartCancel(r, u, o, NoMessage)
  \/ \E r \in Reqs : PlaceStep(r)
  \/ \E r \in Reqs : CancelStep(r)

Spec == Init /\ [][Next]_vars

\* The life of the first order: every handler that reads or writes an order,
\* interleaved.
SomeStatuses == {"pending", "shipped", "delivered", "returned"}

NextStatus ==
  \/ \E r \in Reqs, method \in Methods :
       orders = <<>> /\ StartPlace(r, "u1", <<[product |-> "p1", size |-> "3ml", quantity |-> 1]>>, NoCoupon, method)
  \/ \E r \in Reqs, u \in Users : StartCancel(r, u, 1, NoMessage)
  \/ \E r \in Reqs, status \in SomeStatuses : StartStatus(r, 1, status, NoMessage)
  \/ \E r \in Reqs, u \in Users :
       /\ intents = <<>> /\ \A q \in Reqs : req[q].kind # "intent"
       /\ StartIntent(r, u, 1)
  \/ \E r \in Reqs, event \in WebhookEvents : StartWebhook(r, event, 1)
  \/ \E r \in Reqs, u \in Users : StartCod(r, u, 1)
  \/ \E r \in Reqs : PlaceStep(r)
  \/ \E r \in Reqs : CancelStep(r)
  \/ \E r \in Reqs : StatusStep(r)
  \/ \E r \in Reqs : IntentStep(r)
  \/ \E r \in Reqs : WebhookStep(r)
  \/ \E r \in Reqs : CodStep(r)

SpecStatus == Init /\ [][NextStatus]_vars

\* Status updates and cancellations of the first order, one request at a time,
\* with time passing between them.
NextCancel ==
  \/ \E r \in Reqs, cart \in Carts :
       Quiet /\ orders = <<>> /\ StartPlace(r, "u1", cart, NoCoupon, "stripe")
  \/ \E r \in Reqs, u \in Users, o \in OrderIds, reason \in Messages :
       Quiet /\ StartCancel(r, u, o, reason)
  \/ \E r \in Reqs, o \in OrderIds, status \in StatusInputs, message \in Messages :
       Quiet /\ StartStatus(r, o, status, message)
  \/ \E r \in Reqs : PlaceStep(r)
  \/ \E r \in Reqs : CancelStep(r)
  \/ \E r \in Reqs : StatusStep(r)
  \/ Quiet /\ Tick

SpecCancel == Init /\ [][NextCancel]_vars

\* Placements one at a time, over every cart and coupon.
NextCheckout ==
  \/ \E r \in Reqs, cart \in AllCarts, coupon \in CouponInputs :
       Quiet /\ Len(orders) < MaxCheckouts /\ StartPlace(r, "u1", cart, coupon, "stripe")
  \/ \E r \in Reqs : PlaceStep(r)
  \/ \E p \in Products : Quiet /\ DeleteProduct(p)

SpecCheckout == Init /\ [][NextCheckout]_vars

\* The name and the price an administrator gives the first product.
NameInputs == {"oud"}
PriceInputs == {3500}

\* The statuses an administrator gives the order while its product is edited.
FrameStatuses == {"shipped", "delivered"}

\* The life of the first order, one request at a time, while an administrator
\* edits and removes the product it names.
NextFrame ==
  \/ \E r \in Reqs, method \in Methods :
       /\ Quiet /\ orders = <<>>
       /\ StartPlace(r, "u1", <<[product |-> "p1", size |-> "3ml", quantity |-> 1]>>, "WELCOME10", method)
  \/ \E r \in Reqs : Quiet /\ StartCancel(r, "u1", 1, NoMessage)
  \/ \E r \in Reqs, status \in FrameStatuses : Quiet /\ StartStatus(r, 1, status, NoMessage)
  \/ \E r \in Reqs : Quiet /\ StartIntent(r, "u1", 1)
  \/ \E r \in Reqs, event \in WebhookEvents, pi \in 1..MaxIntents :
       Quiet /\ StartWebhook(r, event, pi)
  \/ \E r \in Reqs : Quiet /\ StartCod(r, "u1", 1)
  \/ \E r \in Reqs : PlaceStep(r)
  \/ \E r \in Reqs : CancelStep(r)
  \/ \E r \in Reqs : StatusStep(r)
  \/ \E r \in Reqs : IntentStep(r)
  \/ \E r \in Reqs : WebhookStep(r)
  \/ \E r \in Reqs : CodStep(r)
  \/ \E newName \in NameInputs, newPrice \in PriceInputs :
       UpdateProduct("p1", newName, "3ml", newPrice)
  \/ DeleteProduct("p1")

SpecFrame == Init /\ [][NextFrame]_vars

ReviewIds == 1..MaxReviews

\* The ratings of the requests: 0 is no rating, 6 is out of range.
RatingInputs == {0, 2, 5}
EditInputs == {0, 4, 6}

\* Reviews of one product created and deleted, and the first one edited by
\* the first user, interleaved with each other and with the rating updates
\* their hooks start.
NextReviews ==
  \/ \E r \in Reqs, u \in Users, rating \in RatingInputs : StartReview(r, u, "p1", rating)
  \/ \E r \in Reqs : StartEdit(r, "u1", 1, 4)
  \/ \E r \in Reqs, u \in Users, id \in ReviewIds : StartRemove(r, u, id)
  \/ \E r \in Reqs : ReviewStep(r)
  \/ \E r \in Reqs : EditStep(r)
  \/ \E r \in Reqs : RemoveStep(r)
  \/ \E j \in 1..MaxJobs : RatingStep(j)

SpecReviews == Init /\ [][NextReviews]_vars

\* One review is created, and the users toggle their helpful vote on it, two
\* requests at a time.
NextVotes ==
  \/ \E r \in Reqs : Quiet /\ reviews = <<>> /\ StartReview(r, "u1", "p1", 5)
  \/ \E r \in Reqs, u \in Users : StartVote(r, u, 1)
  \/ \E r \in Reqs : ReviewStep(r)
  \/ \E r \in Reqs : VoteStep(r)
  \/ \E j \in 1..MaxJobs : RatingStep(j)

SpecVotes == Init /\ [][NextVotes]_vars

\* The statuses an administrator gives the orders that reviews look for.
PurchaseStatuses == {"delivered", "cancelled"}

\* No request and no rating update is in flight.
Settled == Quiet /\ jobs = <<>>

\* Users buy the first product, an administrator delivers or cancels their
\* orders, and users write reviews and edit the first one, one request at a
\* time.
NextPurchase ==
  \/ \E r \in Reqs, u \in Users :
       /\ Settled
       /\ StartPlace(r, u, <<[product |-> "p1", size |-> "3ml", quantity |-> 1]>>, NoCoupon, "cod")
  \/ \E r \in Reqs, o \in 1..MaxOrders, status \in PurchaseStatuses :
       Settled /\ StartStatus(r, o, status, NoMessage)
  \/ \E r \in Reqs, u \in Users, p \in Products : Settled /\ StartReview(r, u, p, 5)
  \/ \E r \in Reqs, u \in Users, rating \in EditInputs :
       Settled /\ StartEdit(r, u, 1, rating)
  \/ \E r \in Reqs : PlaceStep(r)
  \/ \E r \in Reqs : StatusStep(r)
  \/ \E r \in Reqs : ReviewStep(r)
  \/ \E r \in Reqs : EditStep(r)
  \/ \E j \in 1..MaxJobs : RatingStep(j)

SpecPurchase == Init /\ [][NextPurchase]_vars

\* Placements one at a time, whose stock updates can fail.
NextFailure ==
  \/ \E r \in Reqs, u \in Users, cart \in Carts, method \in Methods :
       Quiet /\ StartPlace(r, u, cart, NoCoupon, method)
  \/ \E r \in Reqs : PlaceStep(r)
  \/ \E r \in Reqs : PlaceReduceFails(r)

SpecFailure == Init /\ [][NextFailure]_vars

\* The items of the carts that are validated: every quantity of one size,
\* one unit of another size and of another product, a size the product does
\* not have and a product that does not exist.
CartItems ==
  {it \in ItemInputs :
     \/ it.product = "p1" /\ it.size = "3ml"
     \/ it.quantity = 1 /\ it.size = "6ml" /\ it.product \in Products
     \/ it.quantity = 1 /\ it.size = "12ml" /\ it.product = "p1"
     \/ it.quantity = 1 /\ it.size = "3ml" /\ it.product = AbsentProduct}

CartInputs == UNION {[1..n -> CartItems] : n \in 1..MaxItems}

\* Carts are validated, placed and cancelled one request at a time, while an
\* administrator edits and removes products.
NextCart ==
  \/ \E r \in Reqs, cart \in CartInputs : Quiet /\ StartCartValidate(r, "u1", cart)
  \/ \E r \in Reqs, cart \in CartInputs :
       Quiet /\ Len(orders) < MaxCheckouts /\ StartPlace(r, "u1", cart, NoCoupon, "stripe")
  \/ \E r \in Reqs, o \in OrderIds : Quiet /\ StartCancel(r, "u1", o, NoMessage)
  \/ \E r \in Reqs : CartValidate(r)
  \/ \E r \in Reqs : PlaceStep(r)
  \/ \E r \in Reqs : CancelStep(r)
  \/ \E newName \in NameInputs, newPrice \in PriceInputs :
       Quiet /\ UpdateProduct("p1", newName, "3ml", newPrice)
  \/ \E p \in Products : Quiet /\ DeleteProduct(p)

SpecCart == Init /\ [][NextCart]_vars

\* ============================================================ claims
\* Request r, handled with no other request in flight since it arrived,
\* sends its response at this step; Answer is what it leaves on record.
Answers(r) ==
  /\ solo.actor = r
  /\ solo'.actor = NoReq
  /\ Len(solo'.ops) = Len(solo.ops) + 1

Answer == solo'.ops[Len(solo'.ops)]

\* The store is at rest and the requests on record were handled undisturbed.
AtRest == Quiet /\ solo.actor = NoReq /\ solo.ops # <<>>

LastOp == solo.ops[Len(solo.ops)]

KeyOf(item) == <<item.product, item.size>>

\* The requested quantity of an item exceeds the stock s of its size.
OverStock(item, s) == KeyOf(item) \in Keys /\ item.quantity > s[KeyOf(item)]

\* The item names an active product, one of its sizes, and no more than stock s.
PassesChecks(item, s) ==
  /\ item.product \in Products
  /\ active[item.product]
  /\ KeyOf(item) \in Keys
  /\ item.quantity <= s[KeyOf(item)]

\* ----------------------------------------------------------------- C1
\* C1: the stock of every product size is at least 0 in every reachable
\* state, whatever the interleaving of placements and cancellations, a cart
\* that names the same size twice included.
StockNeverNegative == \A k \in Keys : stock[k] >= 0

\* ----------------------------------------------------------------- C2
\* C2 as stated: a placement in which any line item asks for more than the
\* stock of its size is answered with InsufficientStock and leaves every
\* stock counter as it was.
AnyOverStockItemIsInsufficientStock ==
  [][\A r \in Reqs :
       (/\ req[r].kind = "place"
        /\ Answers(r)
        /\ \E n \in 1..Len(req[r].items) : OverStock(req[r].items[n], solo.stock))
       => (Answer.result = "InsufficientStock" /\ stock' = solo.stock)]_vars

\* C2 amended: a placement whose first line item to fail a check asks for
\* more than the stock of a size of an active product is answered with
\* InsufficientStock for that item, and leaves every stock counter, those of
\* the line items before it included, and the orders as they were.
FirstFailingOverStockItemIsInsufficientStock ==
  [][\A r \in Reqs : \A n \in 1..Len(req[r].items) :
       (/\ req[r].kind = "place"
        /\ Answers(r)
        /\ OverStock(req[r].items[n], solo.stock)
        /\ active[req[r].items[n].product]
        /\ \A m \in 1..(n - 1) : PassesChecks(req[r].items[m], solo.stock))
       => (/\ Answer.result = "InsufficientStock"
           /\ Answer.i = n
           /\ stock' = solo.stock
           /\ orders' = solo.orders)]_vars

\* A placement was refused for its second line item's quantity after its
\* first line item had passed every check.
SecondItemRefusedForStock ==
  /\ AtRest
  /\ Len(solo.ops) = 1
  /\ LastOp.kind = "place"
  /\ LastOp.result = "InsufficientStock"
  /\ LastOp.i = 2
  /\ stock = solo.stock

\* ----------------------------------------------------------------- C3
PlaceErrors == {"NotFound", "InvalidSize", "InsufficientStock", "ValidationFailed"}

\* A line item that fails validation: its product is absent or inactive, its
\* size is not one of the product's, it asks for more than stock s, or its
\* quantity is below 1.
FailsValidation(item, s) == ~PassesChecks(item, s) \/ item.quantity < 1

\* C3: a placement with a line item that fails validation is refused, and a
\* refused placement creates no order and changes no stock counter.
RefusedPlacementWritesNothing ==
  [][\A r \in Reqs :
       (req[r].kind = "place" /\ Answers(r))
       => /\ (\E n \in 1..Len(req[r].items) : FailsValidation(req[r].items[n], solo.stock))
               => Answer.result \in PlaceErrors
          /\ Answer.result \in PlaceErrors
               => (orders' = solo.orders /\ stock' = solo.stock)]_vars

\* A placement was refused by the schema validation of Order.create, after
\* every line item had passed the checks of the validation loop.
RefusedAtCreate ==
  /\ AtRest
  /\ LastOp.kind = "place"
  /\ LastOp.result = "ValidationFailed"
  /\ orders = solo.orders
  /\ stock = solo.stock

\* ----------------------------------------------------------------- C4
\* The quantity that line items its take of size k.
RECURSIVE QuantityOf(_, _)
QuantityOf(its, k) ==
  IF its = <<>> THEN 0
  ELSE (IF KeyOf(Head(its)) = k THEN Head(its).quantity ELSE 0) + QuantityOf(Tail(its), k)

\* C4: a cancellation by the owner of a pending or confirmed order sets the
\* status to cancelled and adds, for every line item, the item's quantity to
\* the stock of its size; a placement followed by the cancellation of its
\* order, with nothing in between, leaves every stock counter where it was
\* before the placement.
CancelRestoresStock ==
  (AtRest /\ LastOp.kind = "cancel" /\ LastOp.result = "ok") =>
    LET o == LastOp.order
    IN /\ orders[o].user = LastOp.user
       /\ orders[o].status = "cancelled"
       /\ Len(solo.ops) = 1 =>
            /\ solo.orders[o].status \in {"pending", "confirmed"}
            /\ \A k \in Keys : stock[k] = solo.stock[k] + QuantityOf(orders[o].items, k)
       /\ Len(solo.ops) = 2 =>
            /\ solo.ops[1].kind = "place" /\ solo.ops[1].order = o
            /\ stock = solo.stock

\* An order of two line items, one of them of two units, was placed and then
\* cancelled, and the stock is what it was before the placement.
PlacedThenCancelled ==
  /\ AtRest
  /\ Len(solo.ops) = 2
  /\ LastOp.kind = "cancel" /\ LastOp.result = "ok"
  /\ Len(orders[LastOp.order].items) = 2
  /\ \E n \in 1..2 : orders[LastOp.order].items[n].quantity = 2
  /\ stock = solo.stock

\* ----------------------------------------------------------------- C5
NotCancellable == {"processing", "shipped", "delivered", "cancelled", "refunded"}

\* A lone cancellation of an order that existed in one of the listed statuses
\* when the request arrived.
CancelOfNotCancellable ==
  /\ AtRest
  /\ Len(solo.ops) = 1
  /\ LastOp.kind = "cancel"
  /\ LastOp.order \in 1..Len(solo.orders)
  /\ solo.orders[LastOp.order].status \in NotCancellable

\* C5 as stated: a cancellation of an order whose status is processing,
\* shipped, delivered, cancelled or refunded is answered with Conflict, and
\* leaves the stock and the order, its status and history included, as they
\* were.
CancelOfNotCancellableConflicts ==
  CancelOfNotCancellable =>
    (LastOp.result = "Conflict" /\ stock = solo.stock /\ orders = solo.orders)

\* C5 amended: a cancellation by the owner of an order whose status is
\* processing, shipped, delivered, cancelled or refunded is answered with
\* Conflict, and leaves the stock and the order as they were.
OwnerCancelOfNotCancellableConflicts ==
  (CancelOfNotCancellable /\ solo.orders[LastOp.order].user = LastOp.user) =>
    (LastOp.result = "Conflict" /\ stock = solo.stock /\ orders = solo.orders)

\* The owner's cancellation of a shipped order was answered with Conflict.
ShippedOrderNotCancelled ==
  /\ CancelOfNotCancellable
  /\ solo.orders[LastOp.order].user = LastOp.user
  /\ solo.orders[LastOp.order].status = "shipped"
  /\ LastOp.result = "Conflict"
  /\ orders[LastOp.order].status = "shipped"

\* ----------------------------------------------------------------- C6
\* C6: the pricing of every order satisfies
\* total = subtotal + shipping + tax - discount, in cents, and total >= 0.
TotalAddsUp ==
  \A o \in 1..Len(orders) :
    LET p == orders[o].pricing
    IN p.total = p.subtotal + p.shipping + p.tax - p.discount /\ p.total >= 0

\* An order was created with a coupon: it pays shipping and has a discount.
DiscountedOrder ==
  \E o \in 1..Len(orders) :
    /\ orders[o].coupon # NoCoupon
    /\ orders[o].pricing.discount > 0
    /\ orders[o].pricing.shipping > 0
    /\ orders[o].pricing.total > 0

\* ----------------------------------------------------------------- C7
\* The sum of unit price times quantity over the first n line items.
RECURSIVE LinesTotal(_, _)
LinesTotal(its, n) ==
  IF n = 0 THEN 0 ELSE LinesTotal(its, n - 1) + its[n].price * its[n].quantity

\* The order's line items are prices[n] a unit, quantities[n] units.
HasLines(o, prices, quantities) ==
  /\ Len(orders[o].items) = Len(prices)
  /\ \A n \in 1..Len(prices) :
       orders[o].items[n].price = prices[n] /\ orders[o].items[n].quantity = quantities[n]

\* C7: without a coupon the subtotal is the sum of price times quantity over
\* the line items, at the catalogue's prices; shipping is 0 from a subtotal
\* of 100.00 and 9.99 below it; tax is 5% of the subtotal rounded to the
\* cent; there is no discount.  Items of 30 x 2 and 20 x 1 give 80.00, 9.99,
\* 4.00 and 93.99; a subtotal of 150.00 gives 0, 7.50 and 157.50.
PricingWithoutCoupon ==
  \A o \in 1..Len(orders) :
    orders[o].coupon = NoCoupon =>
      LET p == orders[o].pricing
          its == orders[o].items
      IN /\ \A n \in 1..Len(its) : its[n].price = price[KeyOf(its[n])]
         /\ p.subtotal = LinesTotal(its, Len(its))
         /\ p.shipping = IF p.subtotal >= 10000 THEN 0 ELSE 999
         /\ 5 * p.subtotal - 50 < 100 * p.tax /\ 100 * p.tax <= 5 * p.subtotal + 50
         /\ p.discount = 0
         /\ HasLines(o, <<3000, 2000>>, <<2, 1>>) =>
              p = [subtotal |-> 8000, shipping |-> 999, tax |-> 400,
                   discount |-> 0, total |-> 9399]
         /\ p.subtotal = 15000 =>
              (p.shipping = 0 /\ p.tax = 750 /\ p.total = 15750)

\* An order of 30 x 2 and 20 x 1 without a coupon was created at 93.99.
OrderOfEighty ==
  \E o \in 1..Len(orders) :
    /\ orders[o].coupon = NoCoupon
    /\ HasLines(o, <<3000, 2000>>, <<2, 1>>)
    /\ orders[o].pricing.total = 9399

\* ----------------------------------------------------------------- C8
\* C8: the discount of an order placed with a code of the coupon table is the
\* table's effect for the code: the percentage of the subtotal, the fixed
\* amount, or free shipping.
DiscountFollowsCouponTable ==
  \A o \in 1..Len(orders) :
    orders[o].coupon \in DOMAIN Coupons =>
      LET c == Coupons[orders[o].coupon]
          p == orders[o].pricing
      IN /\ c.type = "percentage" => p.discount = MathRound(p.subtotal * c.discount, 100)
         /\ c.type = "fixed" => p.discount = c.discount * 100
         /\ c.type = "freeShipping" => p.shipping = 0

\* ----------------------------------------------------------------- C9
\* C9: a placement with a coupon code that is not in the coupon table is
\* refused: it creates no order, applies no discount and changes no stock.
UnknownCouponRefused ==
  [][\A r \in Reqs :
       (/\ req[r].kind = "place"
        /\ Answers(r)
        /\ HasCode(req[r].coupon)
        /\ req[r].coupon \notin DOMAIN Coupons)
       => (Answer.result # "ok" /\ orders' = solo.orders /\ stock' = solo.stock)]_vars

\* ---------------------------------------------------------------- C10
IsPrefix(h, g) == Len(h) <= Len(g) /\ \A n \in 1..Len(h) : g[n] = h[n]

\* C10: the status history of an order is append-only: a step leaves the
\* history as it was or appends one {status, message, timestamp} entry to
\* it, and a step that changes the order's status appends exactly one entry,
\* whose status is the new status.
HistoryAppendOnly ==
  [][/\ Len(orders') >= Len(orders)
     /\ \A o \in 1..Len(orders) :
          LET h == orders[o].statusHistory
              g == orders'[o].statusHistory
          IN /\ IsPrefix(h, g)
             /\ Len(g) <= Len(h) + 1
             /\ \A n \in 1..Len(g) : DOMAIN g[n] = {"status", "message", "timestamp"}
             /\ orders'[o].status # orders[o].status =>
                  (Len(g) = Len(h) + 1 /\ g[Len(g)].status = orders'[o].status)]_vars

\* A customer cancellation, a status update by an administrator and a
\* payment confirmation have each appended their entry to the first order's
\* history.
ThreeEntries ==
  /\ Len(orders) >= 1
  /\ Len(orders[1].statusHistory) = 3
  /\ orders[1].statusHistory[1].status = "pending"
  /\ orders[1].statusHistory[2].status = "confirmed"
  /\ orders[1].statusHistory[3].status = "cancelled"
  /\ orders[1].status = "cancelled"

\* ---------------------------------------------------------------- C11
\* C11: cancelled and refunded are absorbing: no step changes the status of
\* an order that is cancelled or refunded.
CancelledAndRefundedAbsorb ==
  [][\A o \in 1..Len(orders) :
       orders[o].status \in {"cancelled", "refunded"}
         => orders'[o].status = orders[o].status]_vars

\* ---------------------------------------------------------------- C12
\* The order is pending, its payment is pending and its history is one
\* pending entry.
FreshOrder(doc) ==
  /\ doc.status = "pending"
  /\ doc.payment.status = "pending"
  /\ Len(doc.statusHistory) = 1
  /\ doc.statusHistory[1].status = "pending"

\* C12: an order is created with status pending, payment status pending and
\* a history of exactly one entry, whose status is pending, and it is so when
\* the placement that created it answers.
NewOrderIsPending ==
  /\ [][\A o \in 1..Len(orders') : o > Len(orders) => FreshOrder(orders'[o])]_vars
  /\ [](AtRest /\ LastOp.kind = "place" /\ LastOp.result = "ok"
          => FreshOrder(orders[LastOp.order]))

\* A placement with a coupon has answered with the order it created.
PlacedWithCoupon ==
  /\ AtRest
  /\ LastOp.kind = "place" /\ LastOp.result = "ok"
  /\ orders[LastOp.order].coupon # NoCoupon
  /\ FreshOrder(orders[LastOp.order])

\* ---------------------------------------------------------------- C13
\* C13: no step changes the line items or the pricing of an order that
\* exists, and no step removes an order.
ItemsAndPricingNeverChange ==
  [][/\ Len(orders') >= Len(orders)
     /\ \A o \in 1..Len(orders) :
          /\ orders'[o].items = orders[o].items
          /\ orders'[o].pricing = orders[o].pricing]_vars

\* The first order has been through status changes, and its product has since
\* been renamed, repriced and removed from the store: the order keeps the name
\* and the price of the day it was placed.
OrderOutlivesProduct ==
  /\ Len(orders) >= 1
  /\ Len(orders[1].statusHistory) >= 3
  /\ orders[1].payment.stripePaymentId # NoIntent
  /\ LET item == orders[1].items[1]
     IN /\ ~active[item.product]
        /\ item.name # name[item.product]
        /\ item.price # price[KeyOf(item)]
        /\ orders[1].pricing.subtotal = item.price * item.quantity

\* ---------------------------------------------------------------- C20
\* A lone cancellation, by a user who is not its owner, of an order that
\* existed when the request arrived.
CancelByOther ==
  /\ AtRest
  /\ Len(solo.ops) = 1
  /\ LastOp.kind = "cancel"
  /\ LastOp.order \in 1..Len(solo.orders)
  /\ solo.orders[LastOp.order].user # LastOp.user

\* C20: a cancellation by a user who does not own the order, an administrator
\* included, is answered with Forbidden and leaves the order, its status and
\* history included, and every stock counter as they were, whatever the
\* order's status.
CancelByOtherIsForbidden ==
  CancelByOther =>
    (LastOp.result = "Forbidden" /\ stock = solo.stock /\ orders = solo.orders)

\* An administrator's cancellation of another user's pending order was
\* answered with Forbidden.
AdminCannotCancel ==
  /\ CancelByOther
  /\ LastOp.user \in Admins
  /\ solo.orders[LastOp.order].status = "pending"
  /\ LastOp.result = "Forbidden"
  /\ orders[LastOp.order].status = "pending"

\* ---------------------------------------------------------------- C14
\* A create-review request leaves its insert behind at this step.
Inserts(r) == req[r].kind = "review" /\ req[r].pc = "create" /\ req'[r].pc = "idle"

\* C14: no two reviews have the same user and product; a create-review
\* request whose insert finds a review of its user and product leaves the
\* reviews as they were, and otherwise adds one review; handled alone, it is
\* answered with the duplicate-review error exactly when there is one.
OneReviewPerUserAndProduct ==
  /\ [](\A i, j \in 1..Len(reviews) :
          (i # j /\ reviews[i].live /\ reviews[j].live)
            => <<reviews[i].user, reviews[i].product>> # <<reviews[j].user, reviews[j].product>>)
  /\ [][\A r \in Reqs :
          Inserts(r) =>
            LET taken == \E i \in 1..Len(reviews) :
                           /\ reviews[i].live
                           /\ reviews[i].user = req[r].user
                           /\ reviews[i].product = req[r].product
            IN /\ taken => reviews' = reviews
               /\ ~taken => (/\ Len(reviews') = Len(reviews) + 1
                             /\ \A i \in 1..Len(reviews) : reviews'[i] = reviews[i])
               /\ Answers(r) => (Answer.result = "Duplicate" <=> taken)]_vars

\* A create-review request that found no review of its user and product is
\* about to insert, and by now there is one.
InsertAfterTheOther ==
  \E r \in Reqs :
    /\ req[r].kind = "review" /\ req[r].pc = "create"
    /\ \E i \in 1..Len(reviews) :
         /\ reviews[i].live
         /\ reviews[i].user = req[r].user
         /\ reviews[i].product = req[r].product

\* ---------------------------------------------------------------- C18
\* The ratings of the approved reviews of product p.
Approved(p) ==
  {i \in 1..Len(reviews) : reviews[i].live /\ reviews[i].isApproved /\ reviews[i].product = p}

RECURSIVE SumOver(_)
SumOver(ids) ==
  IF ids = {} THEN 0
  ELSE LET i == CHOOSE x \in ids : TRUE IN reviews[i].rating + SumOver(ids \ {i})

\* average, in tenths, is the mean of the ratings rounded to one decimal.
IsRoundedMean(average, sum, n) ==
  /\ 2 * n * average <= 20 * sum + n
  /\ 20 * sum + n < 2 * n * (average + 1)

\* C18: when no review request and no rating update is in flight, every
\* product's ratings.count is the number of its approved reviews and its
\* ratings.average is their mean rounded to one decimal, 0 and 0 without any.
RatingsMatchReviews ==
  (Quiet /\ jobs = <<>>) =>
    \A p \in Products :
      LET n == Cardinality(Approved(p))
      IN /\ ratings[p].count = n
         /\ n = 0 => ratings[p].average = 0
         /\ n > 0 => IsRoundedMean(ratings[p].average, SumOver(Approved(p)), n)

\* ---------------------------------------------------------------- C19
\* C19: a run of updateProductRating writes ratings.average and
\* ratings.count of its product and nothing else, and a second run over the
\* same reviews writes the same again: after the write of a run whose
\* aggregate is that of the reviews as they are, the write of another run
\* over these reviews leaves the ratings as they are.
UpdateProductRatingIdempotent ==
  [][Len(jobs') < Len(jobs) =>
       \E j \in 1..Len(jobs) :
         LET p == jobs[j].product
             again == [product |-> p, pc |-> "write",
                       sum |-> SumRatings(reviews', p), count |-> CountRatings(reviews', p)]
         IN /\ jobs[j].pc = "write"
            /\ jobs' = Without(jobs, j)
            /\ \A q \in Products \ {p} : ratings'[q] = ratings[q]
            /\ DOMAIN ratings'[p] = {"average", "count"}
            /\ UNCHANGED <<stock, price, active, name, orders, reviews>>
            /\ (jobs[j].sum = again.sum /\ jobs[j].count = again.count)
                 => RatingsAfterUpdate(ratings', again) = ratings'
            /\ \A k \in 1..Len(jobs) :
                 (k # j /\ jobs[k] = jobs[j]) => RatingsAfterUpdate(ratings', jobs[k]) = ratings']_vars

\* Two runs have aggregated the same reviews of a product; the first has
\* written its ratings and the second is about to write.
SecondRunOverSameReviews ==
  \E j \in 1..Len(jobs) :
    /\ jobs[j].pc = "write"
    /\ jobs[j].count > 0
    /\ jobs[j].sum = SumRatings(reviews, jobs[j].product)
    /\ jobs[j].count = CountRatings(reviews, jobs[j].product)
    /\ ratings[jobs[j].product].count = jobs[j].count
    /\ ratings[jobs[j].product].average * jobs[j].count = 10 * jobs[j].sum

\* ---------------------------------------------------------------- C15
\* The delivered orders of user u that have product p among their items.
DeliveredWith(u, p) ==
  {o \in 1..Len(orders) :
     /\ orders[o].user = u
     /\ orders[o].status = "delivered"
     /\ p \in {orders[o].items[n].product : n \in 1..Len(orders[o].items)}}

\* C15: a review is created with isVerifiedPurchase true exactly when its
\* user has a delivered order with the reviewed product among its items;
\* orders of other users and orders in other statuses do not count.
VerifiedIffDeliveredOrder ==
  [][\A r \in Reqs :
       (Answers(r) /\ Answer.kind = "review" /\ Answer.result = "ok") =>
         /\ Answer.review = Len(reviews) + 1
         /\ Len(reviews') = Len(reviews) + 1
         /\ reviews'[Answer.review].user = req[r].user
         /\ reviews'[Answer.review].product = req[r].product
         /\ reviews'[Answer.review].isVerifiedPurchase
              <=> DeliveredWith(req[r].user, req[r].product) # {}]_vars

\* One product has a verified review by the user whose order of it was
\* delivered, and an unverified review by the other user.
VerifiedAndUnverified ==
  /\ AtRest /\ LastOp.kind = "review" /\ LastOp.result = "ok"
  /\ \E i, j \in 1..Len(reviews) :
       /\ reviews[i].product = reviews[j].product
       /\ reviews[i].isVerifiedPurchase
       /\ ~reviews[j].isVerifiedPurchase
       /\ DeliveredWith(reviews[i].user, reviews[i].product) # {}
       /\ DeliveredWith(reviews[j].user, reviews[j].product) = {}

\* ---------------------------------------------------------------- C16
\* C16: of every review, helpfulVotes is the number of users in votedBy, and
\* votedBy holds no user twice.
HelpfulVotesCountVoters ==
  \A i \in 1..Len(reviews) :
    reviews[i].live =>
      /\ reviews[i].helpfulVotes = Len(reviews[i].votedBy)
      /\ Cardinality(Elements(reviews[i].votedBy)) = Len(reviews[i].votedBy)

\* ---------------------------------------------------------------- C17
\* The requests on record are helpful toggles that were saved.
TogglesOnRecord ==
  /\ solo.ops # <<>>
  /\ \A n \in 1..Len(solo.ops) :
       solo.ops[n].kind = "vote" /\ solo.ops[n].result \in {"voted", "unvoted"}

\* C17: two toggles in a row by one user on one review, handled with nothing
\* in between, leave helpfulVotes and the user's membership of votedBy as
\* they were before the first; and a toggle answers voted = true exactly when
\* the user was not in votedBy before it.
TwoTogglesRestore ==
  TogglesOnRecord =>
    LET id == solo.ops[1].review
        u == solo.ops[1].user
        before == solo.reviews[id]
    IN /\ solo.ops[1].result = "voted" <=> u \notin Elements(before.votedBy)
       /\ (Len(solo.ops) = 2 /\ solo.actor = NoReq) =>
            /\ solo.ops[2].user = u /\ solo.ops[2].review = id
            /\ solo.ops[2].result # solo.ops[1].result
            /\ reviews[id].helpfulVotes = before.helpfulVotes
            /\ Elements(reviews[id].votedBy) = Elements(before.votedBy)

\* A user who had voted has taken the vote back and given it again.
UnvotedThenVoted ==
  /\ TogglesOnRecord
  /\ Len(solo.ops) = 2 /\ solo.actor = NoReq
  /\ solo.ops[1].result = "unvoted"
  /\ solo.ops[2].result = "voted"

\* ---------------------------------------------------------------- C25
\* C25: a payment-success webhook about an intent that create-intent made
\* for an order leaves that order with payment status paid and status
\* confirmed, whichever of the order's intents it is about.
SuccessWebhookPaysTheOrder ==
  [][\A r \in Reqs :
       (/\ req[r].kind = "webhook"
        /\ req[r].event = "payment_intent.succeeded"
        /\ req'[r].pc = "idle")
         => LET o == intents[req[r].intent]
            IN /\ orders'[o].payment.status = "paid"
               /\ orders'[o].status = "confirmed"]_vars

\* ---------------------------------------------------------------- C24
\* C24: an admin status update to delivered sets payment.paidAt when it is
\* unset and leaves a paidAt that is set as it was; an update to another
\* status leaves paidAt as it was.
DeliveredKeepsPaidAt ==
  [][\A r \in Reqs :
       (req[r].kind = "status" /\ req[r].pc = "save" /\ req'[r].pc = "idle")
         => LET o == req[r].order
                before == orders[o].payment.paidAt
                after == orders'[o].payment.paidAt
            IN IF req[r].status = "delivered" /\ before = NoDate
               THEN after # NoDate
               ELSE after = before]_vars

\* ---------------------------------------------------------------- C22
\* Request r is about to save its copy of an order that another request has
\* written since r read it.
SavesStale(r) ==
  /\ req[r].pc = "save"
  /\ \/ req[r].kind = "cancel"
     \/ req[r].kind = "webhook" /\ req[r].event = "payment_intent.succeeded"
  /\ orders[req[r].order].status # req[r].loaded.status

\* An entry of status first comes before an entry of status second.
Follows(history, first, second) ==
  \E m, n \in 1..Len(history) :
    m < n /\ history[m].status = first /\ history[n].status = second

\* C22: of a cancellation and a payment-success webhook that both read the
\* order before either writes, the later write is rejected; so at rest no
\* order is confirmed and paid while its units are back in stock, and none is
\* cancelled with a confirmed entry after its cancelled entry.
CancelAndWebhookSerialized ==
  /\ [][\A r \in Reqs : SavesStale(r) /\ req'[r] # req[r] => orders' = orders]_vars
  /\ [](Quiet =>
          \A o \in 1..Len(orders) :
            /\ (orders[o].status = "confirmed" /\ orders[o].payment.status = "paid")
                 => \A k \in Keys : stock[k] + QuantityOf(orders[o].items, k) <= MaxStock
            /\ orders[o].status = "cancelled"
                 => ~Follows(orders[o].statusHistory, "cancelled", "confirmed"))

\* ---------------------------------------------------------------- C23
\* Request r takes a step of a handler that is not to touch the stock.
StepsAsideFromStock(r) ==
  /\ req'[r] # req[r]
  /\ \/ req[r].kind \in {"webhook", "intent", "cod"}
     \/ req[r].kind = "status" /\ req[r].status # "cancelled"

\* C23: the admin status update to a status other than cancelled, the
\* webhooks, create-intent and confirm-cod leave the stock as it is; and a
\* request that moves an order to cancelled, the admin status update
\* included, adds the quantities of the order's line items to the stock.
OnlyCancellationTouchesStock ==
  /\ [][\A r \in Reqs : StepsAsideFromStock(r) => stock' = stock]_vars
  /\ []((/\ AtRest /\ Len(solo.ops) = 1
         /\ LastOp.kind \in {"cancel", "status"} /\ LastOp.result = "ok"
         /\ solo.orders[LastOp.order].status # "cancelled"
         /\ orders[LastOp.order].status = "cancelled")
          => \A k \in Keys :
               stock[k] = solo.stock[k] + QuantityOf(orders[LastOp.order].items, k))

\* ---------------------------------------------------------------- C27
\* The units of size k held by the first n orders that are not cancelled.
RECURSIVE Held(_, _)
Held(n, k) ==
  IF n = 0 THEN 0
  ELSE Held(n - 1, k)
       + (IF orders[n].status # "cancelled" THEN QuantityOf(orders[n].items, k) ELSE 0)

\* C27: at rest, for every size, the stock plus the quantities of the size
\* in the orders that are not cancelled is the initial stock.
StockConserved ==
  Quiet => \A k \in Keys : stock[k] + Held(Len(orders), k) = MaxStock

\* ---------------------------------------------------------------- C28
\* C28: the quantities of an order are added back to the stock at most once.
\* A placement takes the quantities once and nothing else adds to the stock,
\* so at rest no size holds more than its initial stock.
RestoredAtMostOnce ==
  Quiet => \A k \in Keys : stock[k] <= MaxStock

\* ---------------------------------------------------------------- C29
\* C29: at rest every order has a status history, whose last entry has the
\* order's status.
LastEntryIsStatus ==
  Quiet =>
    \A o \in 1..Len(orders) :
      /\ orders[o].statusHistory # <<>>
      /\ orders[o].statusHistory[Len(orders[o].statusHistory)].status = orders[o].status

\* ---------------------------------------------------------------- C26
\* C26: when a stock update fails after the order was created, the request
\* is answered with an error, the order stays stored as it was created, with
\* status pending, and the stock keeps the decrements of the line items
\* before the one that failed.
FailedReduceKeepsOrder ==
  [][\A r \in Reqs :
       (/\ req[r].kind = "place" /\ req[r].pc = "reduce"
        /\ Answers(r) /\ Answer.result # "ok")
         => LET o == req[r].order
                done == SubSeq(req[r].orderItems, 1, req[r].i - 1)
            IN /\ Len(orders') = Len(solo.orders) + 1
               /\ orders'[o] = orders[o]
               /\ orders'[o].status = "pending"
               /\ orders'[o].items = req[r].orderItems
               /\ \A k \in Keys : stock'[k] = solo.stock[k] - QuantityOf(done, k)]_vars

\* The stock update of the second line item of a placement failed: its order
\* is stored and the units of its first line item are taken.
FailedAtSecondItem ==
  /\ AtRest
  /\ LastOp.kind = "place" /\ LastOp.result = "Failed" /\ LastOp.i = 2
  /\ Len(orders) = Len(solo.orders) + 1
  /\ orders[LastOp.order].status = "pending"
  /\ stock # solo.stock

\* ---------------------------------------------------------------- C30
\* Request r takes a step of the cart validation.
ValidationSteps(r) == req[r].kind = "validate" /\ req'[r] # req[r]

\* C30: the cart validation changes no product, stock counter or order; and
\* when a list of items is validated and then placed without a coupon, with
\* nothing in between, the validation has returned the subtotal, shipping,
\* tax and total that the order stores, and every returned item's subtotal
\* is its price times its returned quantity.
CartAgreesWithPlacement ==
  /\ [][\A r \in Reqs :
          ValidationSteps(r) =>
            UNCHANGED <<stock, price, active, name, orders, intents, reviewVars>>]_vars
  /\ []((/\ AtRest /\ Len(solo.ops) = 2
         /\ solo.ops[1].kind = "validate" /\ solo.ops[1].result = "ok"
         /\ solo.ops[2].kind = "place" /\ solo.ops[2].result = "ok")
          => LET reply == solo.ops[1].reply
                 stored == orders[solo.ops[2].order].pricing
             IN /\ reply.pricing.subtotal = stored.subtotal
                /\ reply.pricing.shipping = stored.shipping
                /\ reply.pricing.tax = stored.tax
                /\ reply.pricing.total = stored.total
                /\ \A n \in 1..Len(reply.items) :
                     reply.items[n].subtotal = reply.items[n].price * reply.items[n].quantity)

\* A list of two items was validated and then placed, at a total of 62.39.
ValidatedThenPlaced ==
  /\ AtRest /\ Len(solo.ops) = 2
  /\ solo.ops[1].kind = "validate" /\ solo.ops[1].result = "ok"
  /\ solo.ops[2].kind = "place" /\ solo.ops[2].result = "ok"
  /\ Len(solo.ops[1].reply.items) = 2
  /\ orders[solo.ops[2].order].pricing.total = 6239

\* ---------------------------------------------------------------- C21
\* A step that changes the active flags clears the flag of one product and
\* leaves the products' names, prices and stock, and the orders, as they are.
ClearsActiveOnly ==
  active' # active =>
    /\ \E p \in Products : active[p] /\ active' = [active EXCEPT ![p] = FALSE]
    /\ UNCHANGED <<stock, price, name, orders, reviews, ratings>>

\* The items of the list that name a product that was deleted.
Deleted(items) ==
  {n \in 1..Len(items) : items[n].product \in Products /\ ~active[items[n].product]}

\* Request r, handled alone, answers a placement or a cart validation whose
\* list names a deleted product.
AnswersAboutDeleted(r) ==
  /\ Answers(r)
  /\ req[r].kind \in {"place", "validate"}
  /\ Deleted(req[r].items) # {}

\* The owner's cancellation of a pending or confirmed order, handled alone,
\* succeeds and restores the stock, whether its products are deleted or not,
\* and the order keeps its line items.
CancelledWhateverDeleted ==
  (/\ AtRest /\ Len(solo.ops) = 1 /\ LastOp.kind = "cancel"
   /\ LastOp.order \in 1..Len(solo.orders)
   /\ solo.orders[LastOp.order].user = LastOp.user
   /\ solo.orders[LastOp.order].status \in {"pending", "confirmed"})
    => LET o == LastOp.order
       IN /\ LastOp.result = "ok"
          /\ orders[o].status = "cancelled"
          /\ orders[o].items = solo.orders[o].items
          /\ \A k \in Keys : stock[k] = solo.stock[k] + QuantityOf(orders[o].items, k)

\* C21 as stated: deleting a product clears its active flag only; every
\* placement and cart validation naming it afterwards fails with NotFound;
\* orders placed before keep their items and can be cancelled with their
\* stock restored.
SoftDeleteAnswersNotFound ==
  /\ [][ClearsActiveOnly]_vars
  /\ [][\A r \in Reqs : AnswersAboutDeleted(r) => Answer.result = "NotFound"]_vars
  /\ []CancelledWhateverDeleted

\* C21: deleting a product clears its active flag only; every placement and
\* cart validation naming it afterwards fails and writes nothing, with
\* NotFound when it gets to the deleted product, and with the error of an
\* earlier item of the list when that one fails first; orders placed before
\* keep their items and can be cancelled with their stock restored.
SoftDeleteRefusesOrders ==
  /\ [][ClearsActiveOnly]_vars
  /\ [][\A r \in Reqs :
          AnswersAboutDeleted(r) =>
            LET first == CHOOSE n \in Deleted(req[r].items) :
                           \A m \in Deleted(req[r].items) : n <= m
            IN /\ Answer.result \in {"NotFound", "InvalidSize", "InsufficientStock"}
               /\ Answer.i <= first
               /\ Answer.i = first => Answer.result = "NotFound"
               /\ orders' = solo.orders /\ stock' = solo.stock]_vars
  /\ []CancelledWhateverDeleted

\* An order placed before its product was deleted has been cancelled after
\* the deletion, and its units are back in stock.
CancelledAfterDeletion ==
  /\ AtRest /\ Len(solo.ops) = 1
  /\ LastOp.kind = "cancel" /\ LastOp.result = "ok"
  /\ \E n \in 1..Len(orders[LastOp.order].items) :
       ~active[orders[LastOp.order].items[n].product]
  /\ \E k \in Keys : stock[k] > solo.stock[k]

====
